---- MODULE Spec2Model ----
(***************************************************************************)
(* A model of mat_to_hdf5.py: the conversion of loaded MATLAB containers   *)
(* into HDF5 containers (convert_mat_to_hdf5, _convert_strings_to_utf8),   *)
(* the selection of source files (get_mat_files), the loop over the files  *)
(* (mat_to_hdf5) and the error handling of main.                           *)
(*                                                                         *)
(* Text is a sequence of one-character strings, so that the regular        *)
(* expressions, the suffix tests, item[0] on a str and the ASCII encoding  *)
(* of numpy's 'S' dtype are computed character by character.               *)
(***************************************************************************)
EXTENDS Integers, Sequences, FiniteSets, TLC

VARIABLES
    pc,         \* position of the run
    fs,         \* the file system as the run finds it: the source path and the destination
    mat_files,  \* main: the list get_mat_files returned
    idx,        \* mat_to_hdf5: position of the loop over mat_files (1-based)
    output_name,\* convert_mat_to_hdf5: the path of the destination file
    mat,        \* convert_mat_to_hdf5: the source container, a sequence of entries in
                \* the order mat.items() yields them
    i,          \* convert_mat_to_hdf5: position of the loop over mat.items() (1-based)
    handles,    \* the h5py.File handles that are open
    disk,       \* destination files on disk: path -> container (key -> dataset)
    dirs,       \* directories this run created
    stdout,     \* the lines printed so far
    exc         \* the exception in flight ("" when none)

vars == <<pc, fs, mat_files, idx, output_name, mat, i, handles, disk, dirs, stdout, exc>>

----------------------------------------------------------------------------
(* Bounds of the model *)

\* most entries of a source container built from BasicValues
MaxEntries == 2
\* most elements of a generic-object array
MaxN == 2
\* most files of a source directory
MaxFiles == 2

----------------------------------------------------------------------------
(* Characters and text *)

NL == "\n"
\* U+0663 ARABIC-INDIC DIGIT THREE: a decimal digit that is not ASCII
ArabicThree == "U+0663"
\* U+00E9: a letter that is not ASCII
EAcute == "U+00E9"

AsciiDigits == {"0", "1", "2", "3", "4", "5", "6", "7", "8", "9"}
\* \d of a str pattern matches every Unicode decimal digit
UnicodeDigits == AsciiDigits \cup {ArabicThree}
NonAscii == {ArabicThree, EAcute}

EndsWith(s, suffix) ==
    /\ Len(s) >= Len(suffix)
    /\ SubSeq(s, Len(s) - Len(suffix) + 1, Len(s)) = suffix

RECURSIVE TrimDigits(_)
\* s without the run of digits at its end
TrimDigits(s) ==
    IF s = <<>> \/ s[Len(s)] \notin UnicodeDigits
    THEN s
    ELSE TrimDigits(SubSeq(s, 1, Len(s) - 1))

\* a pattern that matches nothing: the key is kept as it is
StripKeepsDigits(key) == key

\* re.sub(r'\d+$', '', key): $ matches at the end of the string and just before a
\* newline that ends the string, so the run of digits removed is the one at the end
\* or the one before a final newline
StripTrailingDigits(key) ==
    IF key # <<>> /\ key[Len(key)] = NL
    THEN TrimDigits(SubSeq(key, 1, Len(key) - 1)) \o <<NL>>
    ELSE TrimDigits(key)

K_header == <<"_", "_", "h", "e", "a", "d", "e", "r", "_", "_">>
K_version == <<"_", "_", "v", "e", "r", "s", "i", "o", "n", "_", "_">>
K_globals == <<"_", "_", "g", "l", "o", "b", "a", "l", "s", "_", "_">>

\* no key is skipped
MetadataNone == {}

\* the list of line 27
MetadataKeys == {K_header, K_version, K_globals}

K_header1 == K_header \o <<"1">>
K_song01 == <<"s", "o", "n", "g", "0", "1">>
K_song01Name1 == <<"s", "o", "n", "g", "0", "1", "N", "a", "m", "e", "1">>
K_song == <<"s", "o", "n", "g">>
K_songName == <<"s", "o", "n", "g", "N", "a", "m", "e">>
K_song01Name == <<"s", "o", "n", "g", "0", "1", "N", "a", "m", "e">>
K_digits == <<"1", "2">>
K_newline == <<"s", "1", NL>>
K_arabic == <<"s", ArabicThree>>

T_alpha == <<"a", "l", "p", "h", "a">>
T_beta == <<"b", "e", "t", "a">>
T_cafe == <<"c", "a", "f", EAcute>>
T_empty == <<>>

----------------------------------------------------------------------------
(* Values of a loaded container, and datasets of a destination container *)

Value(type, dtype, num, items, text) ==
    [type |-> type, dtype |-> dtype, num |-> num, items |-> items, text |-> text]

\* a numeric ndarray
NumArr == Value("ndarray", "float64", <<<<1, 2>>, <<3, 4>>>>, <<>>, <<>>)
\* an ndarray of dtype object holding the elements items
ObjArr(items) == Value("ndarray", "object", <<>>, items, <<>>)
\* a str
Str(text) == Value("str", "", <<>>, <<>>, text)
\* a value that is neither an ndarray nor a str
NoneVal == Value("NoneType", "", <<>>, <<>>, <<>>)

\* elements of an object array: a wrapper (a list or array of texts), a bare str,
\* or None
Wrapper(texts) == [type |-> "wrapper", items |-> texts, text |-> <<>>]
Bare(text) == [type |-> "str", items |-> <<>>, text |-> text]
NoneElem == [type |-> "NoneType", items |-> <<>>, text |-> <<>>]

Dataset(dtype, shape, strs, num) ==
    [dtype |-> dtype, shape |-> shape, strs |-> strs, num |-> num]
NoDataset == Dataset("", "", <<>>, <<>>)

\* an exception: its type and its message; NoExc when nothing was raised
Exc(type, msg) == [type |-> type, msg |-> msg]
NoExc == Exc("", "")

IndexError == Exc("IndexError", "index out of range")
NotSubscriptable == Exc("TypeError", "object is not subscriptable")
UnicodeEncodeError == Exc("UnicodeEncodeError", "'ascii' codec can't encode character")
CreateFailed(type) == Exc(type, "Unable to create dataset")

\* what a call gives: the exception it raises, or NoExc and its value
Result(err, val) == [err |-> err, val |-> val]

IsAscii(text) == \A n \in 1..Len(text) : text[n] \notin NonAscii

\* item[0] of line 17
Item0(item) ==
    CASE item.type = "wrapper" ->
            IF item.items = <<>> THEN Result(IndexError, <<>>)
            ELSE Result(NoExc, item.items[1])
      [] item.type = "str" ->
            IF item.text = <<>> THEN Result(IndexError, <<>>)
            ELSE Result(NoExc, <<item.text[1]>>)
      [] OTHER -> Result(NotSubscriptable, <<>>)

\* the indices of the elements of arr on which item[0] raises
Failing(items) == {n \in 1..Len(items) : Item0(items[n]).err # NoExc}

Min(S) == CHOOSE n \in S : \A m \in S : n <= m

\* np.array(flat_list, dtype='S'): every str is encoded as ASCII
S_array(flat_list) ==
    IF \A n \in 1..Len(flat_list) : IsAscii(flat_list[n])
    THEN Result(NoExc, Dataset("S", "array", flat_list, <<>>))
    ELSE Result(UnicodeEncodeError, NoDataset)

\* _convert_strings_to_utf8(arr): the list comprehension raises at the first element
\* on which item[0] raises
convert_strings_to_utf8(arr) ==
    IF Failing(arr.items) # {}
    THEN Result(Item0(arr.items[Min(Failing(arr.items))]).err, NoDataset)
    ELSE S_array([n \in 1..Len(arr.items) |-> Item0(arr.items[n]).val])

\* np.string_(value) of line 40
np_string(value) ==
    IF IsAscii(value.text)
    THEN Result(NoExc, Dataset("S", "scalar", <<value.text>>, <<>>))
    ELSE Result(UnicodeEncodeError, NoDataset)

\* isinstance(value, np.ndarray) and value.dtype.type is np.object_
IsObjectArray(value) == value.type = "ndarray" /\ value.dtype = "object"
\* isinstance(value, np.ndarray) or isinstance(value, str)
IsArrayOrStr(value) == value.type = "ndarray" \/ value.type = "str"

\* ValueError and its subclasses
IsValueError(e) == e \in {"ValueError", "UnicodeEncodeError"}

----------------------------------------------------------------------------
(* Inputs *)

Entry(key, value) == [key |-> key, value |-> value]

ObjOK == ObjArr(<<Wrapper(<<T_alpha>>), Wrapper(<<T_beta>>)>>)
ObjBad == ObjArr(<<Wrapper(<<T_alpha>>), Wrapper(<<>>)>>)

Keys ==
    {K_header, K_version, K_globals, K_header1, K_song01, K_song01Name1, K_song,
     K_digits, K_newline}
BasicValues == {NumArr, Str(T_alpha), NoneVal, ObjOK, ObjBad}

Elements ==
    {Wrapper(<<>>), Wrapper(<<T_alpha>>), Wrapper(<<T_beta>>), Wrapper(<<T_cafe>>),
     Wrapper(<<T_alpha, T_beta>>), Bare(T_alpha), Bare(T_empty), NoneElem}
ObjArrays == {ObjArr(s) : s \in UNION {[1..n -> Elements] : n \in 0..MaxN}}
RichValues == ObjArrays \cup {Str(T_cafe)}

DistinctKeys(m) == \A a, b \in 1..Len(m) : a # b => m[a].key # m[b].key

\* the scenario of the specification
Scenario ==
    << Entry(K_header, Str(T_alpha)),
       Entry(K_song01, NumArr),
       Entry(K_song01Name1, ObjOK) >>

\* the containers convert_mat_to_hdf5 is called with: a dict has no key twice
MatInputs ==
    {m \in UNION {[1..n -> {Entry(k, v) : k \in Keys, v \in BasicValues}] :
                    n \in 0..MaxEntries} : DistinctKeys(m)}
    \cup {<<Entry(K_song01Name1, v), Entry(K_arabic, NumArr)>> : v \in RichValues}
    \cup {Scenario}

----------------------------------------------------------------------------
(* The state of a run *)

Line(line, key, text) == [line |-> line, key |-> key, text |-> text]
CouldNotConvert(key, e) == Line("Could not convert", key, e.msg)
ErrorLine(e) == Line("Error", <<>>, e.msg)
Completed == Line("Conversion completed successfully.", <<>>, "")

EmptyContainer == [k \in {} |-> NoDataset]
Extend(f, k, v) == [x \in DOMAIN f \cup {k} |-> IF x = k THEN v ELSE f[x]]

NoSource ==
    [exists |-> FALSE, isfile |-> FALSE, path |-> <<>>, load |-> Result(NoExc, <<>>),
     listing |-> <<>>, dest_exists |-> FALSE]

OutPath == <<"o", "u", "t", ".", "h", "d", "f", "5">>

\* a call convert_mat_to_hdf5(OutPath, m)
Init ==
    /\ pc = "convert"
    /\ mat \in MatInputs
    /\ output_name = OutPath
    /\ fs = NoSource
    /\ mat_files = <<>>
    /\ idx = 0
    /\ i = 0
    /\ handles = {}
    /\ disk = [p \in {} |-> EmptyContainer]
    /\ dirs = {}
    /\ stdout = <<>>
    /\ exc = NoExc

----------------------------------------------------------------------------
(* convert_mat_to_hdf5 *)

\* h5py.File(output_name, "w"): the file is created or truncated and its handle is
\* open, or the open fails and no handle exists
OpenFile ==
    /\ pc = "convert"
    /\ \E io \in {"", "OSError"} :
        IF io = ""
        THEN /\ handles' = handles \cup {output_name}
             /\ disk' = Extend(disk, output_name, EmptyContainer)
             /\ i' = 1
             /\ pc' = "for_entry"
             /\ exc' = NoExc
        ELSE /\ pc' = "convert_raised"
             /\ exc' = Exc(io, "Unable to create file")
             /\ UNCHANGED <<handles, disk, i>>
    /\ UNCHANGED <<fs, mat_files, idx, output_name, mat, dirs, stdout>>

\* the destination container of the conversion under way
f == IF output_name \in DOMAIN disk THEN disk[output_name] ELSE EmptyContainer

\* a create_dataset that replaces the dataset of a name that exists
CreateOverwrites(key) ==
    IF key = <<>> THEN {"", "ValueError", "TypeError"} ELSE {"", "OSError"}

\* what f.create_dataset(key, ...) can do: a name that exists is refused (ValueError,
\* RuntimeError in older h5py); what the empty name does depends on the h5py version;
\* any write can fail with an I/O error
CreateOutcomes(key) ==
    IF key \in DOMAIN f THEN {"ValueError", "RuntimeError"}
    ELSE IF key = <<>> THEN {"", "ValueError", "TypeError"}
    ELSE {"", "OSError"}

\* the loop goes on with the next entry
Continue ==
    /\ i' = i + 1
    /\ pc' = "for_entry"
    /\ exc' = NoExc

\* an exception leaves the loop: the with statement is left next
Raise(e) ==
    /\ pc' = "with_exit"
    /\ exc' = e
    /\ UNCHANGED i

Written(key, data) == disk' = [disk EXCEPT ![output_name] = Extend(f, key, data)]

\* lines 34-35 without the try around them
ObjectArrayBranchNoTry(key, value) ==
    LET r == convert_strings_to_utf8(value) IN
    IF r.err # NoExc
    THEN Raise(r.err) /\ UNCHANGED <<disk, stdout>>
    ELSE \E o \in CreateOutcomes(key) :
            IF o = ""
            THEN Written(key, r.val) /\ Continue /\ UNCHANGED stdout
            ELSE Raise(CreateFailed(o)) /\ UNCHANGED <<disk, stdout>>

\* lines 32-37: the try holds the conversion and the create_dataset, and the except
\* catches what either raises
ObjectArrayBranch(key, value) ==
    LET r == convert_strings_to_utf8(value) IN
    IF r.err # NoExc
    THEN /\ stdout' = Append(stdout, CouldNotConvert(key, r.err))
         /\ Continue
         /\ UNCHANGED disk
    ELSE \E o \in CreateOutcomes(key) :
            /\ IF o = ""
               THEN Written(key, r.val) /\ UNCHANGED stdout
               ELSE /\ stdout' = Append(stdout, CouldNotConvert(key, CreateFailed(o)))
                    /\ UNCHANGED disk
            /\ Continue

\* lines 38-41: nothing is caught
ArrayOrStrBranch(key, value) ==
    LET r == IF value.type = "str" THEN np_string(value)
             ELSE Result(NoExc, Dataset(value.dtype, "array", <<>>, value.num)) IN
    IF r.err # NoExc
    THEN Raise(r.err) /\ UNCHANGED <<disk, stdout>>
    ELSE \E o \in CreateOutcomes(key) :
            IF o = ""
            THEN Written(key, r.val) /\ Continue /\ UNCHANGED stdout
            ELSE Raise(CreateFailed(o)) /\ UNCHANGED <<disk, stdout>>

\* lines 26-41: one pass of the loop over mat.items()
ForEntry ==
    /\ pc = "for_entry"
    /\ i <= Len(mat)
    /\ LET value == mat[i].value IN
       IF mat[i].key \in MetadataKeys
       THEN Continue /\ UNCHANGED <<disk, stdout>>
       ELSE LET key == StripTrailingDigits(mat[i].key) IN
            IF IsObjectArray(value) THEN ObjectArrayBranch(key, value)
            ELSE IF IsArrayOrStr(value) THEN ArrayOrStrBranch(key, value)
            ELSE Continue /\ UNCHANGED <<disk, stdout>>
    /\ UNCHANGED <<fs, mat_files, idx, output_name, mat, handles, dirs>>

\* a file closed by hand after the loop, and left open when the loop raises
ExitLeaksOnError ==
    /\ \/ pc = "with_exit"
       \/ pc = "for_entry" /\ i > Len(mat)
    /\ handles' = IF exc = NoExc THEN handles \ {output_name} ELSE handles
    /\ pc' = IF exc = NoExc THEN "convert_returned" ELSE "convert_raised"
    /\ UNCHANGED <<fs, mat_files, idx, output_name, mat, i, disk, dirs, stdout, exc>>

\* line 25: the with statement is left, by the end of the loop or by an exception,
\* and closes the file
WithExit ==
    /\ \/ pc = "with_exit"
       \/ pc = "for_entry" /\ i > Len(mat)
    /\ handles' = handles \ {output_name}
    /\ pc' = IF exc = NoExc THEN "convert_returned" ELSE "convert_raised"
    /\ UNCHANGED <<fs, mat_files, idx, output_name, mat, i, disk, dirs, stdout, exc>>

Next == OpenFile \/ ForEntry \/ WithExit

Spec == Init /\ [][Next]_vars

----------------------------------------------------------------------------
(* get_mat_files *)

DotMat == <<".", "m", "a", "t">>
ImputedDotMat == <<"I", "m", "p", "u", "t", "e", "d">> \o DotMat
DotHdf5 == <<".", "h", "d", "f", "5">>

N_song01 == <<"s", "o", "n", "g", "0", "1", "_">> \o ImputedDotMat
N_song02 == <<"s", "o", "n", "g", "0", "2", "_">> \o ImputedDotMat
N_song1 == <<"s", "o", "n", "g", "1", "_">> \o ImputedDotMat
N_notes == <<"n", "o", "t", "e", "s", ".", "t", "x", "t">>
P_data == <<"d", "a", "t", "a">> \o DotMat

\* os.path.splitext(p)[0] of a base name: p up to its last dot, unless only dots
\* come before it
SplitExtRoot(p) ==
    LET dots == {n \in 1..Len(p) : p[n] = "." /\ \E m \in 1..(n - 1) : p[m] # "."} IN
    IF dots = {} THEN p
    ELSE SubSeq(p, 1, (CHOOSE n \in dots : \A m \in dots : m <= n) - 1)

\* re.match(r'(song[0-9][0-9]_Imputed)(\.mat$)', file_name): whether it matches
\* ($ also matches before a newline that ends the name)
SongMatch(file_name) ==
    LET body == IF file_name # <<>> /\ file_name[Len(file_name)] = NL
                THEN SubSeq(file_name, 1, Len(file_name) - 1) ELSE file_name IN
    /\ Len(body) = 18
    /\ SubSeq(body, 1, 4) = <<"s", "o", "n", "g">>
    /\ body[5] \in AsciiDigits
    /\ body[6] \in AsciiDigits
    /\ SubSeq(body, 7, 18) = <<"_">> \o ImputedDotMat
\* name.group(1)
SongGroup1(file_name) == SubSeq(file_name, 1, 14)

MatFile(name, m) == [name |-> name, mat |-> m]

RECURSIVE LoadDir(_, _)
\* lines 54-60: the loop over os.listdir(source); loadmat raises out of it
LoadDir(listing, files) ==
    IF listing = <<>> THEN Result(NoExc, files)
    ELSE LET file == Head(listing) IN
         IF EndsWith(file.name, ImputedDotMat) /\ SongMatch(file.name)
         THEN IF file.load.err # NoExc
              THEN Result(file.load.err, <<>>)
              ELSE LoadDir(Tail(listing),
                           Append(files, MatFile(SongGroup1(file.name), file.load.val)))
         ELSE LoadDir(Tail(listing), files)

NotFound == Exc("ValueError", "File or path does not exist")
NoInput == Exc("ValueError", "No valid .mat files found in the specified source.")

\* get_mat_files without the check of lines 61-62
get_mat_files_unchecked(source) ==
    IF ~source.exists THEN Result(NotFound, <<>>)
    ELSE IF source.isfile /\ EndsWith(source.path, DotMat)
         THEN IF source.load.err # NoExc
              THEN Result(source.load.err, <<>>)
              ELSE Result(NoExc, <<MatFile(SplitExtRoot(source.path), source.load.val)>>)
         ELSE IF ~source.isfile THEN LoadDir(source.listing, <<>>)
         ELSE Result(NoExc, <<>>)

\* lines 47-63
get_mat_files(source) ==
    IF ~source.exists THEN Result(NotFound, <<>>)
    ELSE LET r == IF source.isfile /\ EndsWith(source.path, DotMat)
                  THEN IF source.load.err # NoExc
                       THEN Result(source.load.err, <<>>)
                       ELSE Result(NoExc, <<MatFile(SplitExtRoot(source.path),
                                                    source.load.val)>>)
                  ELSE IF ~source.isfile THEN LoadDir(source.listing, <<>>)
                  ELSE Result(NoExc, <<>>) IN
         IF r.err = NoExc /\ r.val = <<>> THEN Result(NoInput, <<>>) ELSE r

----------------------------------------------------------------------------
(* The inputs of a run of main *)

\* containers a source file can hold: an empty one, the scenario, one with two keys
\* that strip to the same name, one with a text that is not ASCII, one with a
\* malformed text array
MainMats ==
    { <<>>,
      Scenario,
      <<Entry(K_song01, NumArr), Entry(K_song, NumArr)>>,
      <<Entry(K_song, Str(T_cafe))>>,
      <<Entry(K_song01Name1, ObjBad), Entry(K_song01, NumArr)>> }

\* loadmat(path): the container, or ValueError (unknown mat file type), or
\* NotImplementedError (a v7.3 file)
LoadOutcomes ==
    {Result(NoExc, m) : m \in MainMats}
    \cup {Result(Exc("ValueError", "Unknown mat file type"), <<>>),
          Result(Exc("NotImplementedError", "Please use HDF reader for matlab v7.3 files"),
                 <<>>)}

FileNames == {N_song01, N_song02, N_song1, N_notes}
DirFile(name, load) == [name |-> name, load |-> load]

DistinctNames(l) == \A a, b \in 1..Len(l) : a # b => l[a].name # l[b].name

Listings ==
    {l \in UNION {[1..n -> {DirFile(name, load) : name \in FileNames, load \in LoadOutcomes}] :
                    n \in 0..MaxFiles} : DistinctNames(l)}

Sources ==
    {[NoSource EXCEPT !.dest_exists = d] : d \in BOOLEAN}
    \cup {[exists |-> TRUE, isfile |-> TRUE, path |-> p, load |-> load,
           listing |-> <<>>, dest_exists |-> d] :
            p \in {P_data, N_notes}, load \in LoadOutcomes, d \in BOOLEAN}
    \cup {[exists |-> TRUE, isfile |-> FALSE, path |-> <<>>, load |-> Result(NoExc, <<>>),
           listing |-> l, dest_exists |-> d] : l \in Listings, d \in BOOLEAN}

\* main is entered
InitMain ==
    /\ pc = "main"
    /\ fs \in Sources
    /\ mat_files = <<>>
    /\ idx = 0
    /\ output_name = <<>>
    /\ mat = <<>>
    /\ i = 0
    /\ handles = {}
    /\ disk = [p \in {} |-> EmptyContainer]
    /\ dirs = {}
    /\ stdout = <<>>
    /\ exc = NoExc

----------------------------------------------------------------------------
(* mat_to_hdf5 and main *)

\* line 91
GetMatFiles ==
    /\ pc = "main"
    /\ LET r == get_mat_files(fs) IN
       IF r.err = NoExc
       THEN mat_files' = r.val /\ pc' = "mat_to_hdf5" /\ UNCHANGED exc
       ELSE exc' = r.err /\ pc' = "main_raised" /\ UNCHANGED mat_files
    /\ UNCHANGED <<fs, idx, output_name, mat, i, handles, disk, dirs, stdout>>

\* lines 69-70: the destination directory is made when it does not exist; making it
\* can fail
MakeDirs ==
    /\ pc = "mat_to_hdf5"
    /\ IF fs.dest_exists
       THEN pc' = "for_mat_file" /\ idx' = 1 /\ UNCHANGED <<dirs, exc>>
       ELSE \E io \in {"", "OSError"} :
               IF io = ""
               THEN /\ dirs' = dirs \cup {"destination"}
                    /\ pc' = "for_mat_file"
                    /\ idx' = 1
                    /\ UNCHANGED exc
               ELSE /\ exc' = Exc(io, "makedirs failed")
                    /\ pc' = "main_raised"
                    /\ UNCHANGED <<dirs, idx>>
    /\ UNCHANGED <<fs, mat_files, output_name, mat, i, handles, disk, stdout>>

\* lines 71-74: the next file is handed to convert_mat_to_hdf5
ForMatFile ==
    /\ pc = "for_mat_file"
    /\ idx <= Len(mat_files)
    /\ output_name' = mat_files[idx].name \o DotHdf5
    /\ mat' = mat_files[idx].mat
    /\ pc' = "convert"
    /\ UNCHANGED <<fs, mat_files, idx, i, handles, disk, dirs, stdout, exc>>

\* convert_mat_to_hdf5 returned: the loop of line 71 goes on
NextMatFile ==
    /\ pc = "convert_returned"
    /\ idx' = idx + 1
    /\ pc' = "for_mat_file"
    /\ UNCHANGED <<fs, mat_files, output_name, mat, i, handles, disk, dirs, stdout, exc>>

\* line 93: mat_to_hdf5 returned
PrintCompleted ==
    /\ pc = "for_mat_file"
    /\ idx > Len(mat_files)
    /\ stdout' = Append(stdout, Completed)
    /\ pc' = "done"
    /\ UNCHANGED <<fs, mat_files, idx, output_name, mat, i, handles, disk, dirs, exc>>

\* an except that caught the two source-selection errors alone
CatchesSelectionOnly(e) == e \in {NotFound, NoInput}

\* line 94: except ValueError
Caught(e) == IsValueError(e.type)

\* lines 94-95: an exception reaches the try of main
MainExcept ==
    /\ pc \in {"main_raised", "convert_raised"}
    /\ IF Caught(exc)
       THEN /\ stdout' = Append(stdout, ErrorLine(exc))
            /\ pc' = "done"
            /\ exc' = NoExc
       ELSE /\ pc' = "crashed"
            /\ UNCHANGED <<stdout, exc>>
    /\ UNCHANGED <<fs, mat_files, idx, output_name, mat, i, handles, disk, dirs>>

NextMain ==
    \/ GetMatFiles \/ MakeDirs \/ ForMatFile \/ NextMatFile \/ PrintCompleted
    \/ MainExcept \/ OpenFile \/ ForEntry \/ WithExit

SpecMain == InitMain /\ [][NextMain]_vars

----------------------------------------------------------------------------
(* Vocabulary of the properties, stated without the operators of the model *)

ReservedNames == {K_header, K_version, K_globals}

Finished == pc \in {"convert_returned", "convert_raised"}

\* k is key without the run of digits that ends it, the run \d+$ matches: the digits
\* at the end of key, or before the newline that ends key
IsStripOf(k, key) ==
    LET t == IF key # <<>> /\ key[Len(key)] = NL THEN 1 ELSE 0
        body == Len(key) - t IN
    \E a \in 0..body :
        /\ \A m \in (a + 1)..body : key[m] \in UnicodeDigits
        /\ a = 0 \/ key[a] \notin UnicodeDigits
        /\ k = SubSeq(key, 1, a) \o SubSeq(key, body + 1, Len(key))

\* the pass of the loop over entry i is about to run
AtEntry == pc = "for_entry" /\ i <= Len(mat)

NumDataset == Dataset("float64", "array", <<>>, <<<<1, 2>>, <<3, 4>>>>)

----------------------------------------------------------------------------
(* C1 *)

\* C1, as claimed: after convert_mat_to_hdf5 finishes, every destination key is a
\* source key without the run of digits that ends it, and no reserved metadata name
\* is a destination key, whatever the source keys are
C1_Original ==
    Finished =>
        \A k \in DOMAIN f :
            /\ k \notin ReservedNames
            /\ \E n \in 1..Len(mat) : IsStripOf(k, mat[n].key)

\* C1, amended: at every point of a conversion, every destination key is the key of a
\* source entry that is not a reserved name, without the run of digits that ends it
\* (the digits at its end, or before its final newline); so a reserved source entry
\* is never written, while a reserved name followed by digits is written under the
\* reserved name
C1_DestKeys ==
    \A k \in DOMAIN f :
        \E n \in 1..Len(mat) :
            /\ mat[n].key \notin ReservedNames
            /\ IsStripOf(k, mat[n].key)
            /\ n < i

\* a conversion has finished with the key __header__ in the destination, written from
\* the source key __header__1
C1_Witness ==
    /\ pc = "convert_returned"
    /\ K_header \in DOMAIN f
    /\ \E n \in 1..Len(mat) : mat[n].key = K_header1

----------------------------------------------------------------------------
(* C2 *)

\* C2, as claimed: the scenario, converted without a failed write, gives exactly the
\* keys song and songName
C2_Original ==
    (pc = "convert_returned" /\ mat = Scenario /\ stdout = <<>>) =>
        /\ DOMAIN f = {K_song, K_songName}
        /\ f[K_song] = NumDataset
        /\ f[K_songName] = Dataset("S", "array", <<T_alpha, T_beta>>, <<>>)

\* C2, amended: the scenario, converted without a failed write, gives exactly the keys
\* song (the numeric array) and song01Name (the byte strings alpha, beta in that
\* order): only the digit that ends song01Name1 is removed
C2_Scenario ==
    (pc = "convert_returned" /\ mat = Scenario /\ stdout = <<>>) =>
        /\ DOMAIN f = {K_song, K_song01Name}
        /\ f[K_song] = NumDataset
        /\ f[K_song01Name] = Dataset("S", "array", <<T_alpha, T_beta>>, <<>>)

\* the scenario has been converted and nothing was reported
C2_Witness ==
    /\ pc = "convert_returned"
    /\ mat = Scenario
    /\ stdout = <<>>
    /\ DOMAIN f # {}

----------------------------------------------------------------------------
(* C3 *)

IsGenericObjectArray(value) == value.type = "ndarray" /\ value.dtype = "object"

\* entry i is a generic-object array under a key that is not reserved
AtObjectEntry ==
    /\ AtEntry
    /\ mat[i].key \notin ReservedNames
    /\ IsGenericObjectArray(mat[i].value)

\* an element that is not a length-1 wrapper around a text
Malformed(elem) == ~(elem.type = "wrapper" /\ Len(elem.items) = 1)

\* an element whose element 0 cannot be taken: an empty wrapper, an empty text, a
\* value that cannot be indexed
Unindexable(elem) ==
    \/ elem.type = "wrapper" /\ elem.items = <<>>
    \/ elem.type = "str" /\ elem.text = <<>>
    \/ elem.type = "NoneType"

Some(items, P(_)) == \E n \in 1..Len(items) : P(items[n])

\* the entry is dropped with one diagnostic and the loop goes on
DroppedWithDiagnostic ==
    /\ disk' = disk
    /\ pc' = "for_entry"
    /\ i' = i + 1
    /\ Len(stdout') = Len(stdout) + 1
    /\ SubSeq(stdout', 1, Len(stdout)) = stdout
    /\ stdout'[Len(stdout')].line = "Could not convert"
    /\ IsStripOf(stdout'[Len(stdout')].key, mat[i].key)

\* C3, as claimed: a nested text array with an element that is not a length-1 wrapper
\* around a text (a wrapper of length 0 or 2, a bare text) is left out of the
\* destination, and the conversion goes on with the other entries
C3_Original ==
    [][(AtObjectEntry /\ Some(mat[i].value.items, Malformed)) => DroppedWithDiagnostic]_vars

\* C3, amended: a nested text array with an element whose element 0 cannot be taken
\* (an empty wrapper, an empty bare text, a value that cannot be indexed) is left out
\* of the destination with one diagnostic naming its key, and the conversion goes on
\* with the other entries
C3_Dropped ==
    [][(AtObjectEntry /\ Some(mat[i].value.items, Unindexable)) => DroppedWithDiagnostic]_vars

\* a conversion has returned, the text array with an unindexable element is absent
\* and was reported, and another entry of the container is in the destination
C3_Witness ==
    /\ pc = "convert_returned"
    /\ \E n \in 1..Len(mat) :
        /\ mat[n].key \notin ReservedNames
        /\ IsGenericObjectArray(mat[n].value)
        /\ Some(mat[n].value.items, Unindexable)
        /\ \A k \in DOMAIN f : ~IsStripOf(k, mat[n].key)
    /\ DOMAIN f # {}
    /\ Len(stdout) = 1

----------------------------------------------------------------------------
(* C5 *)

\* C5: a failure of a dataset write is never caught inside convert_mat_to_hdf5, so no
\* diagnostic ever reports one
C5_Original ==
    \A n \in 1..Len(stdout) :
        stdout[n].line = "Could not convert" => stdout[n].text # "Unable to create dataset"

----------------------------------------------------------------------------
(* C8 *)

ValidWrapper(elem) == elem.type = "wrapper" /\ Len(elem.items) = 1
All(items, P(_)) == \A n \in 1..Len(items) : P(items[n])
Unwrapped(items) == [n \in 1..Len(items) |-> items[n].items[1]]

WriteReported(key) ==
    \E n \in 1..Len(stdout) :
        /\ stdout[n].text = "Unable to create dataset"
        /\ IsStripOf(stdout[n].key, key)

\* the entries the loop has passed that are text arrays of valid length-1 wrappers
ValidTextEntries ==
    {n \in 1..Len(mat) :
        /\ n < i
        /\ mat[n].key \notin ReservedNames
        /\ IsGenericObjectArray(mat[n].value)
        /\ All(mat[n].value.items, ValidWrapper)}

StoredInOrder(n) ==
    \E k \in DOMAIN f :
        /\ IsStripOf(k, mat[n].key)
        /\ f[k] = Dataset("S", "array", Unwrapped(mat[n].value.items), <<>>)

\* C8: a nested text array of N valid length-1 text wrappers is in the destination as
\* a text dataset of N entries, entry n the text of element n, unless its write
\* failed
C8_Original ==
    \A n \in ValidTextEntries : StoredInOrder(n) \/ WriteReported(mat[n].key)

AsciiText(elem) == \A m \in 1..Len(elem.items[1]) : elem.items[1][m] \notin NonAscii

\* the same of the arrays whose texts are all ASCII: what the code does keep
C8_Ascii ==
    \A n \in ValidTextEntries :
        All(mat[n].value.items, AsciiText) => StoredInOrder(n) \/ WriteReported(mat[n].key)

----------------------------------------------------------------------------
(* C9 *)

\* entry i is skipped in silence by the claim: a reserved key, or a value that is
\* neither an array nor a text
SilentSkip ==
    \/ mat[i].key \in ReservedNames
    \/ mat[i].value.type \notin {"ndarray", "str"}

\* the flatten/encode step fails on the array
ConversionFails(value) ==
    \/ Some(value.items, Unindexable)
    \/ \E n \in 1..Len(value.items) :
          LET e == value.items[n]
              first == IF e.type = "wrapper" THEN e.items[1] ELSE <<e.text[1]>> IN
          \E m \in 1..Len(first) : first[m] \in NonAscii

\* the silent skips of C9 alone
C9_SilentSkips ==
    [][(AtEntry /\ SilentSkip) =>
            /\ disk' = disk
            /\ stdout' = stdout
            /\ pc' = "for_entry"
            /\ i' = i + 1]_vars

\* C9: a silent skip writes nothing, prints nothing and goes on with the next entry,
\* and a diagnostic is printed only for a generic-object array whose conversion fails
C9_Original ==
    [][AtEntry =>
            /\ SilentSkip =>
                    /\ disk' = disk
                    /\ stdout' = stdout
                    /\ pc' = "for_entry"
                    /\ i' = i + 1
            /\ stdout' # stdout =>
                    /\ ~SilentSkip
                    /\ IsGenericObjectArray(mat[i].value)
                    /\ ConversionFails(mat[i].value)]_vars

----------------------------------------------------------------------------
(* C10 *)

\* C10: a dataset, once written, is never replaced and never removed: when a later
\* entry maps to a key that is written, the earlier value stays
C10_NeverReplaced ==
    [][\A p \in DOMAIN disk :
            /\ p \in DOMAIN disk'
            /\ \A k \in DOMAIN disk[p] :
                    /\ k \in DOMAIN disk'[p]
                    /\ disk'[p][k] = disk[p][k]]_vars

\* a conversion has returned in which the second entry mapped to the key of the
\* first, and the value of the first is the one in the destination
C10_Witness ==
    /\ pc = "convert_returned"
    /\ Len(mat) = 2
    /\ mat[1].key = K_song01
    /\ mat[2].key = K_song
    /\ mat[1].value = NumArr
    /\ mat[2].value = ObjOK
    /\ DOMAIN f = {K_song}
    /\ f[K_song] = NumDataset

----------------------------------------------------------------------------
(* C4 *)

SelectionMessages ==
    {"File or path does not exist", "No valid .mat files found in the specified source."}

\* an exception has left get_mat_files or mat_to_hdf5 and reaches the try of main
AtMainTry == pc \in {"main_raised", "convert_raised"}

----------------------------------------------------------------------------
(* C6 *)

IsSongFile(name) ==
    \E a, b \in AsciiDigits : name = <<"s", "o", "n", "g", a, b, "_">> \o ImputedDotMat

\* the source path does not exist, or exists and holds no valid source file: a file
\* that is no .mat file, or a directory without a songNN_Imputed.mat file
NoValidSource ==
    \/ ~fs.exists
    \/ fs.isfile /\ ~EndsWith(fs.path, DotMat)
    \/ ~fs.isfile /\ \A n \in 1..Len(fs.listing) : ~IsSongFile(fs.listing[n].name)

\* C6: when the source path does not exist or holds no valid source file, the run
\* never enters mat_to_hdf5, creates no directory, opens no file, and ends having
\* printed exactly one Error line
C6_NoWrites ==
    NoValidSource =>
        /\ pc \in {"main", "main_raised", "done"}
        /\ dirs = {}
        /\ DOMAIN disk = {}
        /\ handles = {}
        /\ pc # "done" => stdout = <<>>
        /\ pc = "done" =>
                /\ Len(stdout) = 1
                /\ stdout[1].line = "Error"
                /\ stdout[1].text \in SelectionMessages

\* a run over a directory that holds files, none of them a valid source file, has
\* ended
C6_Witness ==
    /\ pc = "done"
    /\ fs.exists
    /\ ~fs.isfile
    /\ fs.listing # <<>>
    /\ NoValidSource
    /\ stdout = <<Line("Error", <<>>, "No valid .mat files found in the specified source.")>>

----------------------------------------------------------------------------
(* C7 *)

InsideWith == pc \in {"for_entry", "with_exit"}

\* C7: at most one destination handle is open; the handle of a container is open
\* exactly while its entries are processed, and is closed when its processing is
\* left, by the end of the loop or by an exception, before the next file is opened
C7_OneHandle ==
    /\ Cardinality(handles) <= 1
    /\ InsideWith => handles = {output_name}
    /\ ~InsideWith => handles = {}

\* the second destination file of a run is open, after the first was closed, and a
\* per-entry failure was caught on the way
C7_Witness ==
    /\ pc = "for_entry"
    /\ idx = 2
    /\ handles = {output_name}
    /\ Cardinality(DOMAIN disk) = 2
    /\ stdout # <<>>

====
